---- MODULE Spec2Model ----
(***************************************************************************)
(* gbk2utf8: recursive scan of a directory tree for files of the           *)
(* configured extensions, detection of GBK content, and in-place           *)
(* conversion to UTF-8 with an optional .bak copy (src/src/main.rs).       *)
(*                                                                         *)
(* A path is a sequence of names, a name is the sequence of its            *)
(* dot-separated parts (<<"a","c">> is a.c), a file content is a sequence  *)
(* of bytes.  Confidences are in tenths (0.8 is 8).                        *)
(***************************************************************************)
EXTENDS Integers, Sequences, FiniteSets, TLC

VARIABLES
    cfg,      \* Config: show_info, scan_only, backup, extensions, min_confidence, tld
    fs,       \* the regular files of the tree: path -> bytes
    oracle,   \* what the charset guesser answers on the contents fed to it so far
    stack,    \* the active calls of process_files_in_dir, innermost last
    pc,       \* position of the program
    cur,      \* file_path of the handle_file call in progress (or last made)
    content,  \* scan_gbk_file's content buffer
    res,      \* value returned by scan_gbk_file
    decoded,  \* convert_gbk_file's decoded string (code points)
    errors,   \* main's error map: path -> error
    out,      \* lines printed in this run: <<path, note>>
    second,   \* TRUE in the second run of the tool on the tree
    faults,   \* I/O failures injected so far
    trace,    \* history: the steps of the handle_file call on cur
    rets,     \* history: path -> "ok" | "err", the handle_file results of this run
    orig,     \* history: fs when this run started
    fsBefore, \* history: fs when handle_file was called on cur
    convOk,   \* history: path -> bytes it held before its successful conversion in this run
    failDir   \* history: the directory whose enumeration failed in this run

vars == <<cfg, fs, oracle, stack, pc, cur, content, res, decoded, errors, out,
          second, faults, trace, rets, orig, fsBefore, convOk, failDir>>

-----------------------------------------------------------------------------
(* Bounds *)

\* longest initial file content, in bytes
MaxLen == 2
\* I/O failures injected in one behaviour
MaxFaults == 1
\* longest file name, in dot-separated parts, a directory iterator returns
\* for a file created after read_dir
MaxName == 3

-----------------------------------------------------------------------------
(* Paths *)

Root == <<>>
Sub == << <<"sub">> >>
Dirs == {Root, Sub}
NoPath == << <<"">> >>

Last(s) == s[Len(s)]
Front(s) == SubSeq(s, 1, Len(s) - 1)
Parent(p) == Front(p)

\* str::to_lowercase on the strings the model uses
to_lowercase(s) ==
    CASE s = "C" -> "c"
      [] s = "H" -> "h"
      [] s = "BAK" -> "bak"
      [] s = "GBK" -> "gbk"
      [] OTHER -> s

\* Path::extension: the part after the last dot of the file name, if any
extension(p) == IF Len(Last(p)) > 1 THEN Last(Last(p)) ELSE ""

\* Path::file_stem
file_stem(p) == IF Len(Last(p)) > 1 THEN Front(Last(p)) ELSE Last(p)

\* Path::with_extension(e), e given as its dot-separated parts
with_extension(p, e) == Append(Front(p), file_stem(p) \o e)

\* backup_path: file_path.with_extension(format!("{}.bak", extension))
backup_path(p) == with_extension(p, <<extension(p), "bak">>)

\* the entries fs::read_dir(d) can return in the current tree
Entries(d) == {p \in (DOMAIN fs) \cup Dirs : Len(p) = Len(d) + 1 /\ Parent(p) = d}

\* config.extensions.iter().any(|e| e.to_lowercase() == ext)
ExtMatches(p, c) ==
    \E i \in 1..Len(c.extensions) :
        to_lowercase(c.extensions[i]) = to_lowercase(extension(p))

-----------------------------------------------------------------------------
(* Bytes: UTF-8 validation and encoding, strict GBK decoding *)

IsCont(b) == b >= 128 /\ b <= 191

RECURSIVE Utf8From(_, _)
\* std::str::from_utf8(&b[i..]).is_ok()
Utf8From(b, i) ==
    IF i > Len(b) THEN TRUE
    ELSE LET x == b[i]
             n == Len(b) - i
         IN  IF x < 128 THEN Utf8From(b, i + 1)
             ELSE IF x >= 194 /\ x <= 223
                  THEN n >= 1 /\ IsCont(b[i+1]) /\ Utf8From(b, i + 2)
             ELSE IF x >= 224 /\ x <= 239
                  THEN /\ n >= 2
                       /\ IsCont(b[i+1]) /\ IsCont(b[i+2])
                       /\ (x = 224 => b[i+1] >= 160)
                       /\ (x = 237 => b[i+1] <= 159)
                       /\ Utf8From(b, i + 3)
             ELSE IF x >= 240 /\ x <= 244
                  THEN /\ n >= 3
                       /\ IsCont(b[i+1]) /\ IsCont(b[i+2]) /\ IsCont(b[i+3])
                       /\ (x = 240 => b[i+1] >= 144)
                       /\ (x = 244 => b[i+1] <= 143)
                       /\ Utf8From(b, i + 4)
             ELSE FALSE

IsValidUtf8(b) == Utf8From(b, 1)

\* the UTF-8 bytes of one Unicode scalar value
Utf8Char(cp) ==
    IF cp < 128 THEN <<cp>>
    ELSE IF cp < 2048 THEN <<192 + (cp \div 64), 128 + (cp % 64)>>
    ELSE IF cp < 65536
         THEN <<224 + (cp \div 4096), 128 + ((cp \div 64) % 64), 128 + (cp % 64)>>
    ELSE <<240 + (cp \div 262144), 128 + ((cp \div 4096) % 64),
           128 + ((cp \div 64) % 64), 128 + (cp % 64)>>

RECURSIVE as_bytes(_)
\* String::as_bytes of a string given as its code points
as_bytes(s) == IF s = <<>> THEN <<>> ELSE Utf8Char(s[1]) \o as_bytes(SubSeq(s, 2, Len(s)))

\* index-gb18030 of the encoding crate, on the byte pairs the modelled contents
\* can hold (0: the pair has no code point)
GbkIndex(l, t) ==
    CASE l = 169 /\ t = 65 -> 12322
      [] l = 169 /\ t = 169 -> 9477
      [] l = 169 /\ t = 195 -> 9503
      [] l = 195 /\ t = 65 -> 32897
      [] l = 195 /\ t = 169 -> 33541
      [] l = 195 /\ t = 195 -> 22969
      [] l = 226 /\ t = 148 -> 37433
      [] l = 227 /\ t = 128 -> 37510
      [] l = 229 /\ t = 166 -> 28641
      [] l = 229 /\ t = 169 -> 28640
      [] l = 230 /\ t = 191 -> 23157
      [] l = 232 /\ t = 130 -> 38002
      [] l = 233 /\ t = 136 -> 38323
      [] l = 233 /\ t = 138 -> 38325
      [] l = 233 /\ t = 145 -> 38332
      [] l = 233 /\ t = 150 -> 38337
      [] OTHER -> 0

\* whether GbkIndex models the pair <<l, t>>
IndexModelled(l, t) == t = 255 \/ t < 64 \/ t = 127 \/ GbkIndex(l, t) # 0

RECURSIVE GbkFrom(_, _, _)
\* GBK.decode(&b[i..], DecoderTrap::Strict) continued after the code points acc
GbkFrom(b, i, acc) ==
    IF i > Len(b) THEN [ok |-> TRUE, s |-> acc]
    ELSE LET x == b[i]
         IN  IF x < 128 THEN GbkFrom(b, i + 1, Append(acc, x))
             ELSE IF x = 128 THEN GbkFrom(b, i + 1, Append(acc, 8364))
             ELSE IF x = 255 \/ i = Len(b) THEN [ok |-> FALSE, s |-> <<>>]
             ELSE LET t == b[i+1]
                      trail == (t >= 64 /\ t <= 126) \/ (t >= 128 /\ t <= 254)
                  IN  IF trail /\ GbkIndex(x, t) # 0
                      THEN GbkFrom(b, i + 2, Append(acc, GbkIndex(x, t)))
                      ELSE [ok |-> FALSE, s |-> <<>>]

GbkDecode(b) == GbkFrom(b, 1, <<>>)

RECURSIVE ModelledFrom(_, _)
\* every byte pair the strict decoder looks up in b[i..] is one GbkIndex models
ModelledFrom(b, i) ==
    IF i >= Len(b) THEN TRUE
    ELSE IF b[i] <= 128 THEN ModelledFrom(b, i + 1)
    ELSE IF b[i] = 255 THEN TRUE
    ELSE IndexModelled(b[i], b[i+1]) /\ (GbkIndex(b[i], b[i+1]) # 0 => ModelledFrom(b, i + 2))

-----------------------------------------------------------------------------
(* Decisions of scan_gbk_file, handle_file and convert_gbk_file *)

Some(n, c) == [some |-> TRUE, name |-> n, conf |-> c]
None == [some |-> FALSE, name |-> "", conf |-> 0]

\* the (encoding, confident) pairs guess_assess can answer on invalid UTF-8
Guesses == [name : {"GBK", "windows-1252"}, confident : BOOLEAN]

\* NeedsGuess with the early return on valid UTF-8 lost
NeedsGuessAlways(b) == TRUE

\* scan_gbk_file goes on to the guesser: from_utf8(&content) is not Ok
NeedsGuess(b) == ~IsValidUtf8(b)

\* the value scan_gbk_file returns on valid UTF-8
Utf8Verdict == Some("utf-8", 10)

\* if confident { 1.0 } else { 0.5 }
Confidence(confident) == IF confident THEN 10 ELSE 5

\* Accepts with a strict comparison
AcceptsStrict(conf, c) == conf > c.min_confidence

\* the threshold test of a gbk guess
Accepts(conf, c) == conf >= c.min_confidence

\* the value scan_gbk_file returns from the guess (encoding, confident)
Verdict(encoding, confident, c) ==
    LET name == to_lowercase(encoding)
    IN  IF name = "gbk"
        THEN IF Accepts(Confidence(confident), c)
             THEN Some(name, Confidence(confident))
             ELSE None
        ELSE IF c.show_info THEN Some(name, Confidence(confident))
        ELSE None

\* extra_note of handle_file
ExtraNote(name, c) ==
    IF name # "gbk" THEN "skip"
    ELSE IF c.scan_only THEN "convertible"
    ELSE "converted"

\* ShouldConvert without the test of scan_only
ShouldConvertAlways(name, c) == name = "gbk"

\* handle_file calls convert_gbk_file
ShouldConvert(name, c) == name = "gbk" /\ ~c.scan_only

\* AfterDecode going to the overwrite without the backup copy
AfterDecodeNoBackup(c) == "create"

\* the step of convert_gbk_file that follows a successful decode
AfterDecode(c) == IF c.backup THEN "backup" ELSE "create"

\* Insert dropping the Err of handle_file
InsertDropped(m, p, e) == m

\* err.insert(path, e)
Insert(m, p, e) == (p :> e) @@ m

\* println! of a per-file note when show_info is set
Println(o, p, note, c) == IF c.show_info THEN o \cup {<<p, note>>} ELSE o

Prefixes(b) == {SubSeq(b, 1, k) : k \in 0..(Len(b) - 1)}

-----------------------------------------------------------------------------
(* I/O failures: any system call may fail, MaxFaults times in a behaviour *)

Fault == faults < MaxFaults /\ faults' = faults + 1
NoFault == faults' = faults

-----------------------------------------------------------------------------
(* Actions *)

Empty == <<>>

\* handle_file returns r to process_files_in_dir, which records an Err(e)
Return(r, e) ==
    /\ rets' = (cur :> r) @@ rets
    /\ errors' = IF r = "err" THEN Insert(errors, cur, e) ELSE errors
    /\ pc' = "iter"

\* fs::read_dir(d) at the start of process_files_in_dir(d), called with the
\* frames stk active; an Err goes up through every caller's `?` to main
ReadDir(stk, d) ==
    \/ /\ NoFault
       /\ stack' = Append(stk, [dir |-> d, snap |-> Entries(d), seen |-> {}])
       /\ pc' = "iter"
       /\ UNCHANGED failDir
    \/ /\ Fault
       /\ stack' = <<>>
       /\ pc' = "aborted"
       /\ failDir' = d

\* main up to the call of process_files_in_dir on config.dir
main ==
    /\ pc = "main"
    /\ ReadDir(stack, Root)
    /\ UNCHANGED <<cfg, fs, oracle, cur, content, res, decoded, errors, out,
                   second, trace, rets, orig, fsBefore, convOk>>

\* entries created after read_dir may or may not be returned by the iterator
Visible(f) ==
    {e \in Entries(f.dir) \ f.seen : e \in f.snap \/ Len(Last(e)) <= MaxName}

Seen(stk, e) == [stk EXCEPT ![Len(stk)].seen = @ \cup {e}]

\* one iteration of the loop of process_files_in_dir on a directory entry
process_dir_entry ==
    /\ pc = "iter" /\ stack # <<>>
    /\ \E e \in Visible(Last(stack)) :
          /\ e \in Dirs
          /\ ReadDir(Seen(stack, e), e)
    /\ UNCHANGED <<cfg, fs, oracle, cur, content, res, decoded, errors, out,
                   second, trace, rets, orig, fsBefore, convOk>>

\* one iteration of the loop of process_files_in_dir on a regular file
process_file_entry ==
    /\ pc = "iter" /\ stack # <<>>
    /\ \E e \in Visible(Last(stack)) :
          /\ e \notin Dirs
          /\ stack' = Seen(stack, e)
          /\ IF ExtMatches(e, cfg)
             THEN /\ cur' = e
                  /\ pc' = "scan"
                  /\ trace' = <<>>
                  /\ content' = <<>>
                  /\ res' = None
                  /\ decoded' = <<>>
                  /\ fsBefore' = fs
             ELSE UNCHANGED <<cur, pc, trace, content, res, decoded, fsBefore>>
    /\ NoFault
    /\ UNCHANGED <<cfg, fs, oracle, errors, out, second, rets, orig, convOk, failDir>>

\* `entry?` is an Err: process_files_in_dir returns it, as do its callers
process_entry_err ==
    /\ pc = "iter" /\ stack # <<>>
    /\ Last(stack).snap \ Last(stack).seen # {}
    /\ Fault
    /\ stack' = <<>>
    /\ pc' = "aborted"
    /\ failDir' = Last(stack).dir
    /\ UNCHANGED <<cfg, fs, oracle, cur, content, res, decoded, errors, out,
                   second, trace, rets, orig, fsBefore, convOk>>

\* the iterator is exhausted: process_files_in_dir returns Ok(())
process_dir_end ==
    /\ pc = "iter" /\ stack # <<>>
    /\ Last(stack).snap \subseteq Last(stack).seen
    /\ stack' = Front(stack)
    /\ pc' = IF Len(stack) = 1 THEN "report" ELSE "iter"
    /\ NoFault
    /\ UNCHANGED <<cfg, fs, oracle, cur, content, res, decoded, errors, out,
                   second, trace, rets, orig, fsBefore, convOk, failDir>>

\* scan_gbk_file(cur)
scan_gbk_file ==
    /\ pc = "scan"
    /\ \/ /\ Fault
          /\ trace' = Append(trace, "scan_err")
          /\ Return("err", "io")
          /\ UNCHANGED <<content, res, oracle, out>>
       \/ /\ NoFault
          /\ content' = fs[cur]
          /\ pc' = "handle"
          /\ IF NeedsGuess(fs[cur])
             THEN /\ \E g \in Guesses :
                        /\ fs[cur] \in DOMAIN oracle => g = oracle[fs[cur]]
                        /\ oracle' = oracle @@ (fs[cur] :> g)
                        /\ res' = Verdict(g.name, g.confident, cfg)
                  /\ trace' = Append(trace, "guess")
                  /\ out' = out
             ELSE /\ res' = Utf8Verdict
                  /\ trace' = Append(trace, "utf8")
                  /\ out' = Println(out, cur, "utf8_skip", cfg)
                  /\ oracle' = oracle
          /\ UNCHANGED <<rets, errors>>
    /\ UNCHANGED <<cfg, fs, stack, cur, decoded, second, orig, fsBefore, convOk, failDir>>

\* handle_file(cur) from the result of scan_gbk_file to the call of convert_gbk_file
handle_file ==
    /\ pc = "handle"
    /\ IF res.some
       THEN IF res.name = "utf-8"
            THEN /\ Return("ok", "")
                 /\ UNCHANGED <<out, trace>>
            ELSE /\ out' = Println(out, cur, ExtraNote(res.name, cfg), cfg)
                 /\ IF ShouldConvert(res.name, cfg)
                    THEN /\ pc' = "convert"
                         /\ trace' = Append(trace, "convert")
                         /\ UNCHANGED <<rets, errors>>
                    ELSE /\ Return("ok", "")
                         /\ UNCHANGED trace
       ELSE /\ out' = Println(out, cur, "undetermined", cfg)
            /\ Return("ok", "")
            /\ UNCHANGED trace
    /\ NoFault
    /\ UNCHANGED <<cfg, fs, oracle, stack, cur, content, res, decoded, second,
                   orig, fsBefore, convOk, failDir>>

\* convert_gbk_file(cur): open, read_to_end and GBK.decode(.., Strict)
convert_decode ==
    /\ pc = "convert"
    /\ \/ /\ Fault
          /\ trace' = Append(trace, "read_err")
          /\ Return("err", "io")
          /\ UNCHANGED decoded
       \/ /\ NoFault
          /\ LET d == GbkDecode(fs[cur])
             IN  IF d.ok
                 THEN /\ decoded' = d.s
                      /\ trace' = Append(trace, "decode_ok")
                      /\ pc' = AfterDecode(cfg)
                      /\ UNCHANGED <<rets, errors>>
                 ELSE /\ trace' = Append(trace, "decode_err")
                      /\ Return("err", "InvalidData")
                      /\ UNCHANGED decoded
    /\ UNCHANGED <<cfg, fs, oracle, stack, cur, content, res, out, second,
                   orig, fsBefore, convOk, failDir>>

\* convert_gbk_file(cur): fs::copy(file_path, &backup_path)
convert_backup ==
    /\ pc = "backup"
    /\ \/ /\ NoFault
          /\ fs' = (backup_path(cur) :> fs[cur]) @@ fs
          /\ out' = Println(out, cur, "backed_up", cfg)
          /\ trace' = Append(trace, "backup_ok")
          /\ pc' = "create"
          /\ UNCHANGED <<rets, errors>>
       \/ /\ Fault
          /\ \/ fs' = fs
             \/ \E part \in Prefixes(fs[cur]) : fs' = (backup_path(cur) :> part) @@ fs
          /\ trace' = Append(trace, "backup_err")
          /\ Return("err", "io")
          /\ out' = out
    /\ UNCHANGED <<cfg, oracle, stack, cur, content, res, decoded, second,
                   orig, fsBefore, convOk, failDir>>

\* convert_gbk_file(cur): fs::File::create(file_path), which truncates the file
convert_create ==
    /\ pc = "create"
    /\ \/ /\ NoFault
          /\ fs' = [fs EXCEPT ![cur] = <<>>]
          /\ trace' = Append(trace, "create_ok")
          /\ pc' = "write"
          /\ UNCHANGED <<rets, errors>>
       \/ /\ Fault
          /\ fs' = fs
          /\ trace' = Append(trace, "create_err")
          /\ Return("err", "io")
    /\ UNCHANGED <<cfg, oracle, stack, cur, content, res, decoded, out, second,
                   orig, fsBefore, convOk, failDir>>

\* convert_gbk_file(cur): file.write_all(decoded.as_bytes()) and Ok(())
convert_write ==
    /\ pc = "write"
    /\ \/ /\ NoFault
          /\ fs' = [fs EXCEPT ![cur] = as_bytes(decoded)]
          /\ trace' = Append(trace, "write_ok")
          /\ convOk' = (cur :> fsBefore[cur]) @@ convOk
          /\ Return("ok", "")
       \/ /\ Fault
          /\ \E part \in Prefixes(as_bytes(decoded)) : fs' = [fs EXCEPT ![cur] = part]
          /\ trace' = Append(trace, "write_err")
          /\ Return("err", "io")
          /\ UNCHANGED convOk
    /\ UNCHANGED <<cfg, oracle, stack, cur, content, res, decoded, out, second,
                   orig, fsBefore, failDir>>

\* main after process_files_in_dir returned Ok: the report of the error map
main_report ==
    /\ pc = "report"
    /\ out' = IF DOMAIN errors # {}
              THEN out \cup {<<p, "failed">> : p \in DOMAIN errors}
              ELSE out \cup {<<NoPath, "all_done">>}
    /\ pc' = "done"
    /\ NoFault
    /\ UNCHANGED <<cfg, fs, oracle, stack, cur, content, res, decoded, errors,
                   second, trace, rets, orig, fsBefore, convOk, failDir>>

\* the tool is started again, with the same configuration, on the tree that a
\* completed run in which no system call failed has left
rerun ==
    /\ pc = "done" /\ ~second /\ faults = 0
    /\ second' = TRUE
    /\ pc' = "main"
    /\ stack' = <<>>
    /\ cur' = NoPath
    /\ content' = <<>>
    /\ res' = None
    /\ decoded' = <<>>
    /\ errors' = Empty
    /\ out' = {}
    /\ trace' = <<>>
    /\ rets' = Empty
    /\ orig' = fs
    /\ fsBefore' = fs
    /\ convOk' = Empty
    /\ failDir' = NoPath
    /\ NoFault
    /\ UNCHANGED <<cfg, fs, oracle>>

Next ==
    \/ main
    \/ process_dir_entry
    \/ process_file_entry
    \/ process_entry_err
    \/ process_dir_end
    \/ scan_gbk_file
    \/ handle_file
    \/ convert_decode
    \/ convert_backup
    \/ convert_create
    \/ convert_write
    \/ main_report
    \/ rerun

-----------------------------------------------------------------------------
(* Initial states *)

AC == << <<"a", "c">> >>
ACBak == << <<"a", "c", "bak">> >>
BH == << <<"sub">>, <<"b", "H">> >>

Bytes == {65, 169, 195}
Contents == UNION {[1..k -> Bytes] : k \in 0..MaxLen}

ExtLists == {<<"c", "h">>, <<"C", "BAK">>}
MinConfidences == {5, 8, 10}

Configs ==
    [show_info : BOOLEAN, scan_only : BOOLEAN, backup : BOOLEAN,
     extensions : ExtLists, min_confidence : MinConfidences, tld : {"cn"}]

Start(c, f) ==
    /\ cfg = c
    /\ fs = f
    /\ oracle = Empty
    /\ stack = <<>>
    /\ pc = "main"
    /\ cur = NoPath
    /\ content = <<>>
    /\ res = None
    /\ decoded = <<>>
    /\ errors = Empty
    /\ out = {}
    /\ second = FALSE
    /\ faults = 0
    /\ trace = <<>>
    /\ rets = Empty
    /\ orig = f
    /\ fsBefore = f
    /\ convOk = Empty
    /\ failDir = NoPath

\* one file a.c of any content, and an empty directory sub, under every configuration
Init == \E c \in Configs : \E b \in Contents : Start(c, AC :> b)

Spec == Init /\ [][Next]_vars

\* a.c, a stale a.c.bak or none, and sub/b.H, of representative contents
TreeContents == {<<195, 195>>, <<65>>, <<195>>}
TreeConfigs == {c \in Configs : c.min_confidence = 8}

InitTree ==
    \E c \in TreeConfigs : \E x \in TreeContents : \E y \in TreeContents :
        \/ Start(c, (AC :> x) @@ (BH :> y))
        \/ Start(c, (AC :> x) @@ (BH :> y) @@ (ACBak :> <<169, 169>>))

SpecTree == InitTree /\ [][Next]_vars

\* the strict decoder never looks up a byte pair GbkIndex does not model
TableCovers == \A p \in DOMAIN fs : IsValidUtf8(fs[p]) \/ ModelledFrom(fs[p], 1)

TypeOK ==
    /\ pc \in {"main", "iter", "scan", "handle", "convert", "backup", "create",
               "write", "report", "done", "aborted"}
    /\ faults \in 0..MaxFaults
    /\ DOMAIN errors \subseteq DOMAIN rets
    /\ \A i \in 1..Len(stack) : stack[i].dir \in Dirs

-----------------------------------------------------------------------------
(* Properties *)

Has(ev) == \E i \in 1..Len(trace) : trace[i] = ev
Converting == pc \in {"convert", "backup", "create", "write"}
\* handle_file has returned on cur
Returned == cur # NoPath /\ pc \notin {"scan", "handle"} /\ ~Converting

\* C1: a file whose bytes are valid UTF-8 gets the verdict ("utf-8", 1.0) from
\* scan_gbk_file without a guess, under every configuration, and handle_file
\* never enters convert_gbk_file on it: nothing is decoded, backed up or
\* written, and the tree is as it was when handle_file was called.
C1_Utf8NeverConverted ==
    (cur # NoPath /\ IsValidUtf8(fsBefore[cur])) =>
        /\ trace \in {<<>>, <<"utf8">>, <<"scan_err">>}
        /\ (trace = <<"utf8">> => res = Utf8Verdict /\ content = fsBefore[cur])
        /\ ~Converting
        /\ fs = fsBefore

C1_Witness ==
    /\ cur = AC /\ fsBefore[AC] = <<195, 169>>
    /\ trace = <<"utf8">> /\ pc = "iter"
    /\ rets[AC] = "ok"
    /\ ~cfg.scan_only /\ cfg.backup /\ cfg.show_info /\ cfg.min_confidence = 5

\* C2: in convert_gbk_file the original path is created and written only after
\* the strict decode has succeeded and, with backup set, after the copy to the
\* .bak path has succeeded; a decode failure leaves the whole tree as it was,
\* a failed copy leaves the original file's bytes, and both return an error.
C2_WriteAfterDecodeAndBackup ==
    /\ (pc \in {"create", "write"} \/ Has("create_ok") \/ Has("create_err")) =>
            /\ Has("decode_ok")
            /\ cfg.backup => Has("backup_ok")
    /\ (pc = "create" /\ cfg.backup) =>
            /\ backup_path(cur) \in DOMAIN fs
            /\ fs[backup_path(cur)] = fsBefore[cur]
            /\ fs[cur] = fsBefore[cur]
    /\ (cur # NoPath /\ fs[cur] # fsBefore[cur]) => Has("create_ok")
    /\ Has("decode_err") =>
            /\ fs = fsBefore
            /\ ~Converting /\ rets[cur] = "err"
    /\ Has("backup_err") =>
            /\ fs[cur] = fsBefore[cur]
            /\ ~Has("create_ok") /\ ~Has("create_err")
            /\ ~Converting /\ rets[cur] = "err"

C2_Witness ==
    /\ cfg.backup
    /\ trace = <<"guess", "convert", "decode_ok", "backup_ok", "create_ok", "write_ok">>
    /\ fs[backup_path(cur)] = fsBefore[cur]
    /\ fs[cur] # fsBefore[cur]

\* C3: conversion is atomic: when convert_gbk_file has returned, either it
\* returned Ok and the file holds the whole UTF-8 encoding of the decoded text,
\* or it returned an error and the file holds its original bytes.
C3_ConversionAtomic ==
    (Returned /\ Has("convert")) =>
        \/ /\ rets[cur] = "ok"
           /\ fs[cur] = as_bytes(GbkDecode(fsBefore[cur]).s)
        \/ /\ rets[cur] = "err"
           /\ fs[cur] = fsBefore[cur]

\* C4: with scan_only set a run changes no file and creates no .bak file,
\* whatever the other flags and the detection results: convert_gbk_file is
\* never entered and a gbk file is reported as convertible only.
C4_ScanOnlyMutatesNothing ==
    cfg.scan_only =>
        /\ fs = orig
        /\ ~Converting /\ ~Has("convert")
        /\ DOMAIN convOk = {}
        /\ \A o \in out : o[2] \notin {"converted", "backed_up"}
        /\ (Returned /\ res.some /\ res.name = "gbk" /\ cfg.show_info) =>
                <<cur, "convertible">> \in out

C4_Witness ==
    /\ cfg.scan_only /\ cfg.backup /\ cfg.show_info
    /\ pc = "done"
    /\ <<AC, "convertible">> \in out
    /\ fs = orig

\* the guess the charset guesser made on the content scanned for cur
Guessed == oracle[content]
GbkGuess == Guessed.name = "GBK"
Conf == IF Guessed.confident THEN 10 ELSE 5

C6_BackupKeepsOriginal ==
    cfg.backup =>
        \A p \in DOMAIN convOk :
            /\ backup_path(p) \in DOMAIN fs
            /\ fs[backup_path(p)] = convOk[p]

\* C7: an Err of handle_file is recorded in the error map under the file's
\* path and the walk goes on: at any point the map holds exactly the files
\* whose handling failed, and after a completed walk every file of the tree
\* with a matching extension has been handled.
C7_ErrorsIsolated ==
    /\ DOMAIN errors = {p \in DOMAIN rets : rets[p] = "err"}
    /\ (Returned /\ cur \in DOMAIN rets) =>
            /\ rets[cur] = "err" <=>
                    trace[Len(trace)] \in {"scan_err", "read_err", "decode_err",
                                           "backup_err", "create_err", "write_err"}
            /\ Has("decode_err") => errors[cur] = "InvalidData"
    /\ pc \in {"report", "done"} =>
            {p \in DOMAIN orig : ExtMatches(p, cfg)} \subseteq DOMAIN rets

C7_Witness ==
    /\ pc = "done"
    /\ DOMAIN errors = {AC} /\ errors[AC] = "InvalidData"
    /\ cur = BH /\ rets[BH] = "ok" /\ Has("write_ok")
    /\ <<AC, "failed">> \in out

\* C8: a failure to enumerate a directory below the root does not abort the
\* run: the run is aborted only when the enumeration of the top-level
\* directory fails.
C8_OnlyRootFailureAborts == pc = "aborted" => failDir = Root

\* C9: a second run, with the same configuration, on the tree a completed
\* first run has left converts nothing: no file is overwritten and no .bak
\* file is created (stated of the runs in which no system call fails).
C9_SecondRunConvertsNothing ==
    (second /\ faults = 0) =>
        /\ fs = orig
        /\ DOMAIN convOk = {}

\* C10: a file reported as converted is converted: when handle_file has
\* printed the converted note for a file and returned, convert_gbk_file has
\* succeeded and the file holds valid UTF-8 (stated of the runs in which no
\* system call fails).
C10_ReportedConvertedIsUtf8 ==
    (Returned /\ <<cur, "converted">> \in out /\ faults = 0) =>
        /\ rets[cur] = "ok"
        /\ IsValidUtf8(fs[cur])

====
